---- MODULE Spec2Model ----
(***************************************************************************)
(* Model of the per-client session of gmqtt (src/session.go): the          *)
(* in-flight window, the backlog (msgQueue), the awaitRel queue and the    *)
(* packet identifier table.                                                *)
(*                                                                         *)
(* The specifications share the variables:                                 *)
(*   Spec      one action per exported handler.  setInflight and           *)
(*             unsetInflight hold inflightMu from entry to return and each *)
(*             nested call (msgEnQueue, msgDequeue, freePacketID) runs     *)
(*             under its own mutex, so a handler is one atomic step here.  *)
(*   SpecAdmit Spec without msgEnQueue called on its own.                  *)
(*   SpecDrain Spec with the peer acknowledging what is in the window.     *)
(*   SpecRel   the window together with awaitRel and the identifier table. *)
(*   SpecAwait the awaitRel queue and the identifier table on their own.   *)
(*   SpecPid   threads running getPacketID / freePacketID / setPacketID at *)
(*             the granularity pidMu permits: RLock admits several readers *)
(*             at once, and every read and write of freePid inside         *)
(*             getPacketID is a step of its own.                           *)
(*   SpecLock  threads running every handler lock call by lock call.       *)
(*                                                                         *)
(* The `at` timestamps of inflightElem / awaitRelElem are never read by    *)
(* session.go and are left out.  A *packets.Publish is a pointer: its      *)
(* identity is kept in the field ptr.                                      *)
(***************************************************************************)
EXTENDS Integers, Sequences, FiniteSets, TLC

VARIABLES
    inflight,         \* s.inflight: list of inflightElem, front first
    inflightLen,      \* s.inflightLen
    awaitRel,         \* s.awaitRel: list of awaitRelElem, front first
    awaitRelLen,      \* s.awaitRelLen
    msgQueue,         \* s.msgQueue: list of *packets.Publish, front first
    msgQueueLen,      \* s.msgQueueLen
    msgDroppedTotal,  \* s.msgDroppedTotal
    lockedPid,        \* s.lockedPid (a missing key reads false)
    freePid,          \* s.freePid
    nextPtr,          \* the next fresh *packets.Publish
    call,             \* the last handler call: its name, branch and result
    offered,          \* history: ptrs passed to setInflight
    entered,          \* history: ptrs pushed onto s.inflight, in order
    pc,               \* SpecPid: each thread's position
    pidReaders,       \* SpecPid: threads holding pidMu.RLock
    pidWriter,        \* SpecPid: the thread holding pidMu.Lock, as a set of at most one
    tmp,              \* SpecPid: each thread's register (freePid++, an argument); 0 between calls
    id,               \* SpecPid: each thread's local `id`; 0 between calls
    holding,          \* SpecPid: the identifier each thread got and still uses
    mutex             \* s.inflightMu, s.msgQueueMu, s.awaitRelMu: the threads holding each

sessVars == <<inflight, inflightLen, awaitRel, awaitRelLen, msgQueue, msgQueueLen,
              msgDroppedTotal, nextPtr, call, offered, entered, mutex>>
pidVars == <<lockedPid, freePid>>
thrVars == <<pc, pidReaders, pidWriter, tmp, id, holding>>
vars == <<sessVars, pidVars, thrVars>>

----------------------------------------------------------------------------
\* Bounds of the model.

\* config.MaxInflight, config.MaxMsgQueue, config.MaxAwaitRel (0 = unbounded)
MaxInflight == 1
MaxMsgQueue == 2
MaxAwaitRel == 2
\* number of publishes the session is handed
MaxMsgs == 4
\* packet identifiers the protocol layer puts on QoS1/QoS2 publishes: 1..MaxPubPid
MaxPubPid == 1
\* number of publishes the session is handed under SpecRel
MaxRelMsgs == 2
\* cap on s.awaitRelLen, which setAwaitRel raises on every call
MaxAwaitRelLen == 3
\* packet identifiers of the QoS2 publishes the peer sends: 1..MaxRelPid
MaxRelPid == 2
\* width of packets.PacketID (uint16 in the program), scaled down
PidBits == 2
\* threads of SpecPid
NumThreads == 2

----------------------------------------------------------------------------
\* package packets

QOS_0 == 0
QOS_1 == 1
QOS_2 == 2
PidModulus == 2 ^ PidBits
MAX_PACKET_ID == PidModulus - 1
MIN_PACKET_ID == 1
PacketIDs == 0 .. MAX_PACKET_ID

PubPids == 1 .. MaxPubPid
AckPids == 0 .. MaxPubPid
\* <<Qos, PacketID>> of the publishes handed to the session; a QoS0 publish
\* carries the zero PacketID
Publishes == {<<QOS_0, 0>>} \cup ({QOS_1, QOS_2} \X PubPids)
AckKinds == {"Puback", "Pubrec", "Pubcomp"}
\* identifiers handed to setAwaitRel / setPacketID, and to unsetAwaitRel
RelPids == 1 .. MaxRelPid
RelAckPids == 0 .. MaxRelPid

NoMsg == [ptr |-> 0, Qos |-> 0, PacketID |-> 0]
\* op: the handler; matched: whether the scan of unsetInflight / unsetAwaitRel
\* found its element; kind, pid: the packet kind and identifier of a call that
\* matched or that wrote the identifier; enqueue: setInflight's result;
\* tier: msgEnQueue's branch
NoCall == [op |-> "none", kind |-> "", pid |-> 0, enqueue |-> FALSE, matched |-> FALSE,
           tier |-> -1]

Threads == 1 .. NumThreads

\* the sync.Mutex fields of session; pidMu, a sync.RWMutex, is kept in
\* pidReaders and pidWriter
Mutexes == {"inflightMu", "msgQueueMu", "awaitRelMu"}

----------------------------------------------------------------------------
\* container/list helpers

Remove(q, i) == SubSeq(q, 1, i - 1) \o SubSeq(q, i + 1, Len(q))

Range(q) == {q[i] : i \in 1 .. Len(q)}

Ptrs(q) == {q[i].ptr : i \in 1 .. Len(q)}

\* a scan from Front() that stops at its first hit: the least of the indices
\* that satisfy the test, 0 (nil) when there is none
FirstIndex(hits) ==
    IF hits = {} THEN 0 ELSE CHOOSE i \in hits : \A j \in hits : i <= j

----------------------------------------------------------------------------
\* freePacketID / setPacketID bodies (under pidMu.Lock)

freePacketID(table, p) == [table EXCEPT ![p] = FALSE]

setPacketID(table, p) == [table EXCEPT ![p] = TRUE]

----------------------------------------------------------------------------
\* msgEnQueue

QueueFull(q) == Len(q) >= MaxMsgQueue /\ MaxMsgQueue # 0

IsQos0(pub) == pub.Qos = QOS_0

\* the scan `for e := s.msgQueue.Front(); ...` : index of removeMsg, 0 = nil
ScanQos0(q) == FirstIndex({i \in 1 .. Len(q) : IsQos0(q[i])})

\* which branch msgEnQueue takes: 0 = room, 1 = case1, 2 = case2, 3 = case3
Tier(q, publish) ==
    IF ~QueueFull(q) THEN 0
    ELSE IF ScanQos0(q) # 0 THEN 1
    ELSE IF publish.Qos = QOS_0 THEN 2
    ELSE 3

\* case1 only logs removeMsg: s.msgQueue.Remove is not called on it
Case1Queue(q, publish) == Append(q, publish)

\* case2 without its `return`
Case2Queue_NoReturn(q, publish) == Append(q, publish)

\* case2 returns before PushBack
Case2Queue(q, publish) == q

\* case3 taking Back() for Front()
Case3Queue_RemoveBack(q, publish) == Append(Remove(q, Len(q)), publish)

\* case3: removeMsg = Front(); Remove(removeMsg); PushBack(publish)
Case3Queue(q, publish) == Append(Remove(q, 1), publish)

EnQueueList(q, publish) ==
    CASE Tier(q, publish) = 0 -> Append(q, publish)
      [] Tier(q, publish) = 1 -> Case1Queue(q, publish)
      [] Tier(q, publish) = 2 -> Case2Queue(q, publish)
      [] Tier(q, publish) = 3 -> Case3Queue(q, publish)

\* atomic.AddInt64(&s.msgQueueLen, 1) only in the else branch
EnQueueLen(q, n) == IF QueueFull(q) THEN n ELSE n + 1

\* client.addMsgDroppedTotal(1) at the top of the full branch
EnQueueDropped(q, d) == IF QueueFull(q) THEN d + 1 ELSE d

msgEnQueue(publish) ==
    /\ msgQueue' = EnQueueList(msgQueue, publish)
    /\ msgQueueLen' = EnQueueLen(msgQueue, msgQueueLen)
    /\ msgDroppedTotal' = EnQueueDropped(msgQueue, msgDroppedTotal)

----------------------------------------------------------------------------
\* msgDequeue

\* msgDequeue taking Back() for Front()
DequeueIndex_Back(q) == IF Len(q) > 0 THEN Len(q) ELSE 0

\* index of the element msgDequeue removes, 0 when it returns nil
DequeueIndex(q) == IF Len(q) > 0 THEN 1 ELSE 0

DequeueResult(q) == IF DequeueIndex(q) = 0 THEN NoMsg ELSE q[DequeueIndex(q)]

DequeueList(q) == IF DequeueIndex(q) = 0 THEN q ELSE Remove(q, DequeueIndex(q))

DequeueLen(q, n) == IF DequeueIndex(q) = 0 THEN n ELSE n - 1

----------------------------------------------------------------------------
\* setInflight

\* the window test with > for >=
InflightFull_OffByOne(q) == Len(q) > MaxInflight /\ MaxInflight # 0

InflightFull(q) == Len(q) >= MaxInflight /\ MaxInflight # 0

inflightElem(publish) == [pid |-> publish.PacketID, packet |-> publish]

SetInflight(qos, p) ==
    /\ nextPtr <= MaxMsgs
    /\ LET publish == [ptr |-> nextPtr, Qos |-> qos, PacketID |-> p]
       IN  /\ nextPtr' = nextPtr + 1
           /\ offered' = offered \cup {publish.ptr}
           /\ IF InflightFull(inflight)
              THEN /\ msgEnQueue(publish)
                   /\ UNCHANGED <<inflight, inflightLen, entered>>
                   /\ call' = [NoCall EXCEPT !.op = "setInflight", !.enqueue = FALSE,
                                             !.tier = Tier(msgQueue, publish)]
              ELSE /\ inflightLen' = inflightLen + 1
                   /\ inflight' = Append(inflight, inflightElem(publish))
                   /\ entered' = Append(entered, publish.ptr)
                   /\ UNCHANGED <<msgQueue, msgQueueLen, msgDroppedTotal>>
                   /\ call' = [NoCall EXCEPT !.op = "setInflight", !.enqueue = TRUE]
    /\ UNCHANGED <<awaitRel, awaitRelLen, pidVars, thrVars, mutex>>

\* msgEnQueue called on its own (a publish queued without passing the window)
MsgEnQueue(qos, p) ==
    /\ nextPtr <= MaxMsgs
    /\ LET publish == [ptr |-> nextPtr, Qos |-> qos, PacketID |-> p]
       IN  /\ nextPtr' = nextPtr + 1
           /\ msgEnQueue(publish)
           /\ call' = [NoCall EXCEPT !.op = "msgEnQueue", !.tier = Tier(msgQueue, publish)]
    /\ UNCHANGED <<inflight, inflightLen, entered, offered, awaitRel, awaitRelLen,
                   pidVars, thrVars, mutex>>

----------------------------------------------------------------------------
\* unsetInflight

\* the switch without its two `continue` tests
PassesSwitch_AnyQos(kind, el) == TRUE

\* the switch on packet.(type): does element el pass its case without `continue`
PassesSwitch(kind, el) ==
    CASE kind = "Puback" -> el.packet.Qos = QOS_1
      [] kind = "Pubrec" -> el.packet.Qos = QOS_2
      [] OTHER -> TRUE

\* `pid` after the switch: the packet's PacketID for Puback and Pubrec, and
\* the zero value it was declared with for any other packet
SwitchPid(kind, p) == IF kind \in {"Puback", "Pubrec"} THEN p ELSE 0

\* freeID set in the Pubrec case as well
SwitchFreeID_Both(kind) == kind \in {"Puback", "Pubrec"}

\* `freeID` after the switch
SwitchFreeID(kind) == kind = "Puback"

\* index of the first in-flight element the loop removes, 0 when none
MatchIndex(q, kind, p) ==
    FirstIndex({i \in 1 .. Len(q) :
                   PassesSwitch(kind, q[i]) /\ q[i].pid = SwitchPid(kind, p)})

\* the promotion without its PushBack
PromoteList_Drop(q, publish) == q

\* s.inflight after the promoted publish is pushed back
PromoteList(q, publish) == Append(q, inflightElem(publish))

\* s.inflightLen after a match: the removal subtracts 1, the promotion adds nothing
UnsetLen(n, publish) == n - 1

UnsetInflight(kind, p) ==
    LET e == MatchIndex(inflight, kind, p)
        publish == DequeueResult(msgQueue)
    IN  /\ IF e = 0
           THEN /\ UNCHANGED <<inflight, inflightLen, msgQueue, msgQueueLen, lockedPid,
                               entered>>
                /\ call' = [NoCall EXCEPT !.op = "unsetInflight"]
           ELSE /\ inflightLen' = UnsetLen(inflightLen, publish)
                /\ lockedPid' = IF SwitchFreeID(kind)
                                THEN freePacketID(lockedPid, SwitchPid(kind, p))
                                ELSE lockedPid
                /\ msgQueue' = DequeueList(msgQueue)
                /\ msgQueueLen' = DequeueLen(msgQueue, msgQueueLen)
                /\ inflight' = IF publish # NoMsg
                               THEN PromoteList(Remove(inflight, e), publish)
                               ELSE Remove(inflight, e)
                /\ entered' = IF publish # NoMsg THEN Append(entered, publish.ptr)
                              ELSE entered
                /\ call' = [NoCall EXCEPT !.op = "unsetInflight", !.kind = kind, !.pid = p,
                                          !.matched = TRUE]
        /\ UNCHANGED <<msgDroppedTotal, nextPtr, offered, awaitRel, awaitRelLen,
                       freePid, thrVars, mutex>>

----------------------------------------------------------------------------
\* setAwaitRel / unsetAwaitRel

AwaitRelFull(q) == Len(q) >= MaxAwaitRel /\ MaxAwaitRel # 0

\* the eviction taking Back() for Front()
SetAwaitRelList_RemoveBack(q, p) ==
    IF AwaitRelFull(q) THEN Append(Remove(q, Len(q)), [pid |-> p])
    ELSE Append(q, [pid |-> p])

SetAwaitRelList(q, p) ==
    IF AwaitRelFull(q) THEN Append(Remove(q, 1), [pid |-> p]) ELSE Append(q, [pid |-> p])

\* atomic.AddInt64(&s.awaitRelLen, 1) runs whether or not the front was removed
SetAwaitRelLen(q, n) == n + 1

SetAwaitRel(p) ==
    /\ awaitRelLen < MaxAwaitRelLen
    /\ awaitRel' = SetAwaitRelList(awaitRel, p)
    /\ awaitRelLen' = SetAwaitRelLen(awaitRel, awaitRelLen)
    /\ call' = [NoCall EXCEPT !.op = "setAwaitRel", !.pid = p]
    /\ UNCHANGED <<inflight, inflightLen, msgQueue, msgQueueLen, msgDroppedTotal, nextPtr,
                   offered, entered, pidVars, thrVars, mutex>>

AwaitIndex(q, p) == FirstIndex({i \in 1 .. Len(q) : q[i].pid = p})

UnsetAwaitRelList(q, p) == IF AwaitIndex(q, p) = 0 THEN q ELSE Remove(q, AwaitIndex(q, p))

\* the decrement moved out of the `if el.pid == pid`
UnsetAwaitRelLen_Always(q, n, p) == n - 1

UnsetAwaitRelLen(q, n, p) == IF AwaitIndex(q, p) = 0 THEN n ELSE n - 1

UnsetAwaitRelPid(q, table, p) ==
    IF AwaitIndex(q, p) = 0 THEN table ELSE freePacketID(table, p)

UnsetAwaitRel(p) ==
    /\ awaitRel' = UnsetAwaitRelList(awaitRel, p)
    /\ awaitRelLen' = UnsetAwaitRelLen(awaitRel, awaitRelLen, p)
    /\ lockedPid' = UnsetAwaitRelPid(awaitRel, lockedPid, p)
    /\ call' = IF AwaitIndex(awaitRel, p) = 0
               THEN [NoCall EXCEPT !.op = "unsetAwaitRel"]
               ELSE [NoCall EXCEPT !.op = "unsetAwaitRel", !.pid = p, !.matched = TRUE]
    /\ UNCHANGED <<inflight, inflightLen, msgQueue, msgQueueLen, msgDroppedTotal, nextPtr,
                   offered, entered, freePid, thrVars, mutex>>

\* setPacketID called by the protocol layer for a publish that keeps its identifier
SetPacketID(p) ==
    /\ lockedPid' = setPacketID(lockedPid, p)
    /\ call' = [NoCall EXCEPT !.op = "setPacketID", !.pid = p]
    /\ UNCHANGED <<inflight, inflightLen, msgQueue, msgQueueLen, msgDroppedTotal, nextPtr,
                   offered, entered, awaitRel, awaitRelLen, freePid, thrVars, mutex>>

----------------------------------------------------------------------------
\* getPacketID, freePacketID and setPacketID run by threads (SpecPid).
\* PacketID arithmetic is unsigned with PidBits bits.

Inc(v) == (v + 1) % PidModulus

\* `if s.freePid > packets.MAX_PACKET_ID { s.freePid = packets.MIN_PACKET_ID }`
WrapPid(v) == IF v > MAX_PACKET_ID THEN MIN_PACKET_ID ELSE v

\* pidMu.RLock() succeeds while no writer holds the mutex
CanRLock(t) == pidWriter = {}

\* pidMu.Lock() succeeds while nobody holds the mutex
CanLock(t) == pidWriter = {} /\ pidReaders = {}

Goto(t, from, to) == pc[t] = from /\ pc' = [pc EXCEPT ![t] = to]

\* a thread with no identifier of its own calls getPacketID
GetCall(t) ==
    /\ holding[t] = -1
    /\ Goto(t, "idle", "g_rlock")
    /\ UNCHANGED <<sessVars, pidVars, pidReaders, pidWriter, tmp, id, holding>>

GetRLock(t) ==
    /\ CanRLock(t)
    /\ Goto(t, "g_rlock", "g_test")
    /\ pidReaders' = pidReaders \cup {t}
    /\ UNCHANGED <<sessVars, pidVars, pidWriter, tmp, id, holding>>

\* `for s.lockedPid[s.freePid]`
GetTest(t) ==
    /\ pc[t] = "g_test"
    /\ pc' = [pc EXCEPT ![t] = IF lockedPid[freePid] THEN "g_load" ELSE "g_take"]
    /\ UNCHANGED <<sessVars, pidVars, pidReaders, pidWriter, tmp, id, holding>>

\* `s.freePid++` inside the loop: the read ...
GetLoad(t) ==
    /\ Goto(t, "g_load", "g_store")
    /\ tmp' = [tmp EXCEPT ![t] = freePid]
    /\ UNCHANGED <<sessVars, pidVars, pidReaders, pidWriter, id, holding>>

\* ... and the write
GetStore(t) ==
    /\ Goto(t, "g_store", "g_wrap")
    /\ freePid' = Inc(tmp[t])
    /\ UNCHANGED <<sessVars, lockedPid, pidReaders, pidWriter, tmp, id, holding>>

GetWrap(t) ==
    /\ Goto(t, "g_wrap", "g_test")
    /\ freePid' = WrapPid(freePid)
    /\ UNCHANGED <<sessVars, lockedPid, pidReaders, pidWriter, tmp, id, holding>>

\* `id := s.freePid`
GetTake(t) ==
    /\ Goto(t, "g_take", "g_load2")
    /\ id' = [id EXCEPT ![t] = freePid]
    /\ UNCHANGED <<sessVars, pidVars, pidReaders, pidWriter, tmp, holding>>

\* `s.freePid++` after the loop
GetLoad2(t) ==
    /\ Goto(t, "g_load2", "g_store2")
    /\ tmp' = [tmp EXCEPT ![t] = freePid]
    /\ UNCHANGED <<sessVars, pidVars, pidReaders, pidWriter, id, holding>>

GetStore2(t) ==
    /\ Goto(t, "g_store2", "g_wrap2")
    /\ freePid' = Inc(tmp[t])
    /\ UNCHANGED <<sessVars, lockedPid, pidReaders, pidWriter, tmp, id, holding>>

GetWrap2(t) ==
    /\ Goto(t, "g_wrap2", "g_ret")
    /\ freePid' = WrapPid(freePid)
    /\ UNCHANGED <<sessVars, lockedPid, pidReaders, pidWriter, tmp, id, holding>>

\* `return id` and the deferred RUnlock; the caller now uses the identifier
GetReturn(t) ==
    /\ Goto(t, "g_ret", "idle")
    /\ pidReaders' = pidReaders \ {t}
    /\ holding' = [holding EXCEPT ![t] = id[t]]
    /\ tmp' = [tmp EXCEPT ![t] = 0]
    /\ id' = [id EXCEPT ![t] = 0]
    /\ UNCHANGED <<sessVars, pidVars, pidWriter>>

\* the use of the identifier ends: freePacketID(id)
FreeCall(t) ==
    /\ holding[t] # -1
    /\ Goto(t, "idle", "f_lock")
    /\ UNCHANGED <<sessVars, pidVars, pidReaders, pidWriter, tmp, id, holding>>

FreeLock(t) ==
    /\ CanLock(t)
    /\ Goto(t, "f_lock", "f_write")
    /\ pidWriter' = {t}
    /\ UNCHANGED <<sessVars, pidVars, pidReaders, tmp, id, holding>>

FreeWrite(t) ==
    /\ Goto(t, "f_write", "idle")
    /\ lockedPid' = freePacketID(lockedPid, holding[t])
    /\ pidWriter' = {}
    /\ holding' = [holding EXCEPT ![t] = -1]
    /\ UNCHANGED <<sessVars, freePid, pidReaders, tmp, id>>

\* setPacketID(p) for an identifier the protocol layer assigned itself
SetCall(t, p) ==
    /\ Goto(t, "idle", "s_lock")
    /\ tmp' = [tmp EXCEPT ![t] = p]
    /\ UNCHANGED <<sessVars, pidVars, pidReaders, pidWriter, id, holding>>

SetLock(t) ==
    /\ CanLock(t)
    /\ Goto(t, "s_lock", "s_write")
    /\ pidWriter' = {t}
    /\ UNCHANGED <<sessVars, pidVars, pidReaders, tmp, id, holding>>

SetWrite(t) ==
    /\ Goto(t, "s_write", "idle")
    /\ lockedPid' = setPacketID(lockedPid, tmp[t])
    /\ pidWriter' = {}
    /\ tmp' = [tmp EXCEPT ![t] = 0]
    /\ UNCHANGED <<sessVars, freePid, pidReaders, id, holding>>

----------------------------------------------------------------------------
\* The locking of every handler (SpecLock).  A thread's position is the lock
\* call it is at or the section it is in.  What the sections do to the queues
\* is left to Spec, SpecRel and SpecAwait: here each test that decides whether
\* a nested call is made (window full, record found, freeID) goes both ways,
\* and the scan of getPacketID is one section that ends.

\* the mutex msgEnQueue locks, with inflightMu for msgQueueMu
MsgEnQueueMu_Inflight == "inflightMu"

\* the mutex msgEnQueue locks
MsgEnQueueMu == "msgQueueMu"

\* the mutex msgDequeue locks
MsgDequeueMu == "msgQueueMu"

\* positions at which a thread is inside pidMu.Lock()
PidLockWait == {"ui_free", "ua_free", "fp_lock", "sp_lock"}

\* the lock a thread at position l is asking for
Wanted(l) ==
    CASE l \in {"si_lock", "ui_lock"} -> "inflightMu"
      [] l \in {"si_enq", "me_lock"} -> MsgEnQueueMu
      [] l \in {"ui_deq", "md_lock"} -> MsgDequeueMu
      [] l \in {"sa_lock", "ua_lock"} -> "awaitRelMu"
      [] l \in PidLockWait -> "pidMu.Lock"
      [] l = "g_lock" -> "pidMu.RLock"
      [] OTHER -> "none"

\* sync.RWMutex: RLock() waits while a writer holds the mutex or is inside Lock()
LockCanRLock(t) == pidWriter = {} /\ \A u \in Threads : pc[u] \notin PidLockWait

\* mu.Lock() at position from
Lock(t, from, to) ==
    /\ Goto(t, from, to)
    /\ mutex[Wanted(from)] = {}
    /\ mutex' = [mutex EXCEPT ![Wanted(from)] = {t}]
    /\ UNCHANGED <<pidReaders, pidWriter>>

\* the deferred mu.Unlock() of the mutex taken at position at
Unlock(t, at, from, to) ==
    /\ Goto(t, from, to)
    /\ mutex' = [mutex EXCEPT ![Wanted(at)] = mutex[Wanted(at)] \ {t}]
    /\ UNCHANGED <<pidReaders, pidWriter>>

\* a call, or a test whose outcome decides the next call
Branch(t, from, to) ==
    /\ Goto(t, from, to)
    /\ UNCHANGED <<mutex, pidReaders, pidWriter>>

PidLock(t, from, to) ==
    /\ Goto(t, from, to)
    /\ CanLock(t)
    /\ pidWriter' = {t}
    /\ UNCHANGED <<mutex, pidReaders>>

PidUnlock(t, from, to) ==
    /\ Goto(t, from, to)
    /\ pidWriter' = pidWriter \ {t}
    /\ UNCHANGED <<mutex, pidReaders>>

\* msgEnQueue from Lock to the deferred Unlock, entered at `entry`
msgEnQueueLocks(t, entry, body, ret) ==
    \/ Lock(t, entry, body)
    \/ Unlock(t, entry, body, ret)

msgDequeueLocks(t, entry, body, ret) ==
    \/ Lock(t, entry, body)
    \/ Unlock(t, entry, body, ret)

\* freePacketID and setPacketID
pidWriteLocks(t, entry, body, ret) ==
    \/ PidLock(t, entry, body)
    \/ PidUnlock(t, body, ret)

LockSetInflight(t) ==
    /\ \/ Branch(t, "idle", "si_lock")
       \/ Lock(t, "si_lock", "si_test")
       \/ Branch(t, "si_test", "si_enq")
       \/ msgEnQueueLocks(t, "si_enq", "si_enq_body", "si_ret")
       \/ Branch(t, "si_test", "si_ret")
       \/ Unlock(t, "si_lock", "si_ret", "idle")
    /\ UNCHANGED <<inflight, inflightLen, awaitRel, awaitRelLen, msgQueue, msgQueueLen,
                   msgDroppedTotal, nextPtr, call, offered, entered, pidVars, tmp, id,
                   holding>>

LockUnsetInflight(t) ==
    /\ \/ Branch(t, "idle", "ui_lock")
       \/ Lock(t, "ui_lock", "ui_scan")
       \/ Branch(t, "ui_scan", "ui_ret")
       \/ Branch(t, "ui_scan", "ui_free")
       \/ pidWriteLocks(t, "ui_free", "ui_free_body", "ui_deq")
       \/ Branch(t, "ui_scan", "ui_deq")
       \/ msgDequeueLocks(t, "ui_deq", "ui_deq_body", "ui_ret")
       \/ Unlock(t, "ui_lock", "ui_ret", "idle")
    /\ UNCHANGED <<inflight, inflightLen, awaitRel, awaitRelLen, msgQueue, msgQueueLen,
                   msgDroppedTotal, nextPtr, call, offered, entered, pidVars, tmp, id,
                   holding>>

LockMsgEnQueue(t) ==
    /\ \/ Branch(t, "idle", "me_lock")
       \/ msgEnQueueLocks(t, "me_lock", "me_body", "idle")
    /\ UNCHANGED <<inflight, inflightLen, awaitRel, awaitRelLen, msgQueue, msgQueueLen,
                   msgDroppedTotal, nextPtr, call, offered, entered, pidVars, tmp, id,
                   holding>>

LockMsgDequeue(t) ==
    /\ \/ Branch(t, "idle", "md_lock")
       \/ msgDequeueLocks(t, "md_lock", "md_body", "idle")
    /\ UNCHANGED <<inflight, inflightLen, awaitRel, awaitRelLen, msgQueue, msgQueueLen,
                   msgDroppedTotal, nextPtr, call, offered, entered, pidVars, tmp, id,
                   holding>>

LockSetAwaitRel(t) ==
    /\ \/ Branch(t, "idle", "sa_lock")
       \/ Lock(t, "sa_lock", "sa_body")
       \/ Unlock(t, "sa_lock", "sa_body", "idle")
    /\ UNCHANGED <<inflight, inflightLen, awaitRel, awaitRelLen, msgQueue, msgQueueLen,
                   msgDroppedTotal, nextPtr, call, offered, entered, pidVars, tmp, id,
                   holding>>

LockUnsetAwaitRel(t) ==
    /\ \/ Branch(t, "idle", "ua_lock")
       \/ Lock(t, "ua_lock", "ua_scan")
       \/ Branch(t, "ua_scan", "ua_ret")
       \/ Branch(t, "ua_scan", "ua_free")
       \/ pidWriteLocks(t, "ua_free", "ua_free_body", "ua_ret")
       \/ Unlock(t, "ua_lock", "ua_ret", "idle")
    /\ UNCHANGED <<inflight, inflightLen, awaitRel, awaitRelLen, msgQueue, msgQueueLen,
                   msgDroppedTotal, nextPtr, call, offered, entered, pidVars, tmp, id,
                   holding>>

LockGetPacketID(t) ==
    /\ \/ Branch(t, "idle", "g_lock")
       \/ /\ Goto(t, "g_lock", "g_body")
          /\ LockCanRLock(t)
          /\ pidReaders' = pidReaders \cup {t}
          /\ UNCHANGED <<mutex, pidWriter>>
       \/ /\ Goto(t, "g_body", "idle")
          /\ pidReaders' = pidReaders \ {t}
          /\ UNCHANGED <<mutex, pidWriter>>
    /\ UNCHANGED <<inflight, inflightLen, awaitRel, awaitRelLen, msgQueue, msgQueueLen,
                   msgDroppedTotal, nextPtr, call, offered, entered, pidVars, tmp, id,
                   holding>>

LockFreePacketID(t) ==
    /\ \/ Branch(t, "idle", "fp_lock")
       \/ pidWriteLocks(t, "fp_lock", "fp_body", "idle")
    /\ UNCHANGED <<inflight, inflightLen, awaitRel, awaitRelLen, msgQueue, msgQueueLen,
                   msgDroppedTotal, nextPtr, call, offered, entered, pidVars, tmp, id,
                   holding>>

LockSetPacketID(t) ==
    /\ \/ Branch(t, "idle", "sp_lock")
       \/ pidWriteLocks(t, "sp_lock", "sp_body", "idle")
    /\ UNCHANGED <<inflight, inflightLen, awaitRel, awaitRelLen, msgQueue, msgQueueLen,
                   msgDroppedTotal, nextPtr, call, offered, entered, pidVars, tmp, id,
                   holding>>

----------------------------------------------------------------------------

Init ==
    /\ inflight = <<>>
    /\ inflightLen = 0
    /\ awaitRel = <<>>
    /\ awaitRelLen = 0
    /\ msgQueue = <<>>
    /\ msgQueueLen = 0
    /\ msgDroppedTotal = 0
    /\ lockedPid = [p \in PacketIDs |-> FALSE]
    /\ freePid = MIN_PACKET_ID
    /\ nextPtr = 1
    /\ call = NoCall
    /\ offered = {}
    /\ entered = <<>>
    /\ pc = [t \in Threads |-> "idle"]
    /\ pidReaders = {}
    /\ pidWriter = {}
    /\ tmp = [t \in Threads |-> 0]
    /\ id = [t \in Threads |-> 0]
    /\ holding = [t \in Threads |-> -1]
    /\ mutex = [m \in Mutexes |-> {}]

\* The window and the backlog: publishes offered, queued and acknowledged.
Next ==
    \/ \E m \in Publishes : SetInflight(m[1], m[2])
    \/ \E m \in Publishes : MsgEnQueue(m[1], m[2])
    \/ \E k \in AckKinds, p \in AckPids : UnsetInflight(k, p)

Spec == Init /\ [][Next]_vars

\* an acknowledgment that retires a record: a Puback for a QoS1 record or a
\* Pubrec for a QoS2 record in the window, carrying its identifier
MatchingAck(kind, p) ==
    /\ UnsetInflight(kind, p)
    /\ \E i \in 1 .. Len(inflight) :
          inflight[i].packet.Qos = (IF kind = "Puback" THEN QOS_1 ELSE QOS_2)
          /\ inflight[i].pid = p

\* Spec with the peer acknowledging: a QoS1 or QoS2 record that stays in the
\* window eventually receives the acknowledgment of its kind and identifier.
SpecDrain ==
    /\ Init
    /\ [][Next]_vars
    /\ \A k \in {"Puback", "Pubrec"}, p \in AckPids : WF_vars(MatchingAck(k, p))

\* The window fed through setInflight alone: no publish reaches the backlog
\* without having been offered to the window.
NextAdmit ==
    \/ \E m \in Publishes : SetInflight(m[1], m[2])
    \/ \E k \in AckKinds, p \in AckPids : UnsetInflight(k, p)

SpecAdmit == Init /\ [][NextAdmit]_vars

\* The QoS2 handshake: the window, the awaitRel queue and the identifier table,
\* over fewer publishes, all of them offered through setInflight.
NextRel ==
    \/ \E m \in Publishes : nextPtr <= MaxRelMsgs /\ SetInflight(m[1], m[2])
    \/ \E k \in AckKinds, p \in AckPids : UnsetInflight(k, p)
    \/ \E p \in PubPids : awaitRelLen < MaxRelMsgs /\ SetAwaitRel(p)
    \/ \E p \in AckPids : UnsetAwaitRel(p)
    \/ \E p \in PubPids : SetPacketID(p)

SpecRel == Init /\ [][NextRel]_vars

\* The awaitRel queue on its own: QoS2 publishes arriving from the peer, their
\* release, and identifiers marked in use by the protocol layer.
NextAwait ==
    \/ \E p \in RelPids : SetAwaitRel(p)
    \/ \E p \in RelAckPids : UnsetAwaitRel(p)
    \/ \E p \in RelPids : SetPacketID(p)

SpecAwait == Init /\ [][NextAwait]_vars

\* The identifier table under concurrent callers.
NextPid ==
    \E t \in Threads :
        \/ GetCall(t)
        \/ GetRLock(t)
        \/ GetTest(t)
        \/ GetLoad(t)
        \/ GetStore(t)
        \/ GetWrap(t)
        \/ GetTake(t)
        \/ GetLoad2(t)
        \/ GetStore2(t)
        \/ GetWrap2(t)
        \/ GetReturn(t)
        \/ FreeCall(t)
        \/ FreeLock(t)
        \/ FreeWrite(t)
        \/ \E p \in PubPids : SetCall(t, p)
        \/ SetLock(t)
        \/ SetWrite(t)

SpecPid == Init /\ [][NextPid]_vars

\* Every handler of the session called by concurrent threads, lock by lock.
NextLock ==
    \E t \in Threads :
        \/ LockSetInflight(t)
        \/ LockUnsetInflight(t)
        \/ LockMsgEnQueue(t)
        \/ LockMsgDequeue(t)
        \/ LockSetAwaitRel(t)
        \/ LockUnsetAwaitRel(t)
        \/ LockGetPacketID(t)
        \/ LockFreePacketID(t)
        \/ LockSetPacketID(t)

SpecLock == Init /\ [][NextLock]_vars

----------------------------------------------------------------------------
\* Vocabulary of the properties below.

\* the publish a handler called with <<Qos, PacketID>> m in this step works on
Pub(m) == [ptr |-> nextPtr, Qos |-> m[1], PacketID |-> m[2]]

\* this step ran msgEnQueue on Pub(m): called on its own, or by a setInflight
\* that returned false
EnqueueStep(m) ==
    \/ MsgEnQueue(m[1], m[2])
    \/ SetInflight(m[1], m[2]) /\ call'.enqueue = FALSE

HasQos0(q) == \E i \in 1 .. Len(q) : q[i].Qos = QOS_0

AtBound(q) == MaxMsgQueue # 0 /\ Len(q) = MaxMsgQueue

InflightPtrs(q) == {q[i].packet.ptr : i \in 1 .. Len(q)}

\* an in-flight record with this QoS and identifier
HeldBy(q, qos, p) == \E i \in 1 .. Len(q) : q[i].packet.Qos = qos /\ q[i].pid = p

AwaitPids(q) == {q[i].pid : i \in 1 .. Len(q)}

\* the locks thread t holds
Holds(t) ==
    {m \in Mutexes : t \in mutex[m]}
        \cup (IF t \in pidReaders \cup pidWriter THEN {"pidMu"} ELSE {})

\* thread t is inside a lock call that cannot return in this state
Blocked(t) ==
    LET w == Wanted(pc[t])
    IN  CASE w \in Mutexes -> mutex[w] # {}
          [] w = "pidMu.Lock" -> ~CanLock(t)
          [] w = "pidMu.RLock" -> ~LockCanRLock(t)
          [] OTHER -> FALSE

\* the threads that must move before the lock call of a blocked thread t returns
WaitsOn(t) ==
    LET w == Wanted(pc[t])
    IN  CASE w \in Mutexes -> mutex[w]
          [] w = "pidMu.Lock" -> pidWriter \cup pidReaders
          [] w = "pidMu.RLock" -> pidWriter \cup {u \in Threads : pc[u] \in PidLockWait}
          [] OTHER -> {}

\* every thread of S is blocked on threads of S only
Deadlocked(S) == S # {} /\ \A t \in S : Blocked(t) /\ WaitsOn(t) \subseteq S

\* the QoS of the records an acknowledgment of this kind retires
RetiredQos(kind) == IF kind = "Puback" THEN QOS_1 ELSE QOS_2

\* publishes created so far that are neither waiting in the backlog nor ever
\* entered the window: evicted from the backlog, or discarded on arrival
Lost == (1 .. nextPtr - 1) \ (Ptrs(msgQueue) \cup Range(entered))

----------------------------------------------------------------------------
C2_BacklogBound == MaxMsgQueue # 0 => Len(msgQueue) <= MaxMsgQueue

\* C3: when the backlog is at its bound and holds a QoS0 entry, msgEnQueue of any
\* publish removes the first QoS0 entry from the head, appends the publish at
\* the tail and keeps the order of the other entries.
C3_Tier1 ==
    [][ \A m \in Publishes :
          (EnqueueStep(m) /\ AtBound(msgQueue) /\ HasQos0(msgQueue))
          => LET first == CHOOSE i \in 1 .. Len(msgQueue) :
                              /\ msgQueue[i].Qos = QOS_0
                              /\ \A j \in 1 .. (i - 1) : msgQueue[j].Qos # QOS_0
             IN  msgQueue' = Append(Remove(msgQueue, first), Pub(m))
      ]_vars

\* C4: when the backlog is at its bound and holds no QoS0 entry, msgEnQueue of a
\* QoS0 publish leaves the backlog exactly as it was, appends nothing, and
\* raises msgDroppedTotal by exactly 1.
C4_Tier2 ==
    [][ \A m \in Publishes :
          (EnqueueStep(m) /\ AtBound(msgQueue) /\ ~HasQos0(msgQueue) /\ m[1] = QOS_0)
          => /\ msgQueue' = msgQueue
             /\ Pub(m) \notin Range(msgQueue')
             /\ msgDroppedTotal' = msgDroppedTotal + 1
      ]_vars

\* msgEnQueue has just discarded an incoming QoS0 publish at a full backlog
C4_Witness ==
    /\ call.op \in {"msgEnQueue", "setInflight"}
    /\ call.tier = 2
    /\ AtBound(msgQueue)
    /\ ~HasQos0(msgQueue)
    /\ msgDroppedTotal >= 1
    /\ (nextPtr - 1) \notin Ptrs(msgQueue)

\* C5: when the backlog is at its bound, holds no QoS0 entry and the incoming
\* publish is QoS1 or QoS2, msgEnQueue removes the head, appends the publish at
\* the tail and keeps the other entries in order; the length is unchanged.
C5_Tier3 ==
    [][ \A m \in Publishes :
          (EnqueueStep(m) /\ AtBound(msgQueue) /\ ~HasQos0(msgQueue)
             /\ m[1] \in {QOS_1, QOS_2})
          => /\ msgQueue' = Append(Tail(msgQueue), Pub(m))
             /\ Head(msgQueue) \notin Range(msgQueue')
             /\ Len(msgQueue') = Len(msgQueue)
      ]_vars

\* msgEnQueue has just evicted the head of a full backlog of at least two entries
C5_Witness ==
    /\ call.op \in {"msgEnQueue", "setInflight"}
    /\ call.tier = 3
    /\ AtBound(msgQueue)
    /\ Len(msgQueue) >= 2
    /\ msgQueue[Len(msgQueue)].ptr = nextPtr - 1
    /\ Cardinality(Lost) >= 1

\* C6: an acknowledgment that removes an in-flight record while the backlog is
\* non-empty promotes exactly the backlog's head to the tail of the in-flight
\* queue; and the publishes offered to setInflight enter the in-flight queue
\* (admitted or promoted) in the order they were offered.
C6_FifoDrain ==
    [][ \* a step of unsetInflight that found its record, the backlog non-empty
        /\ \/ call'.op # "unsetInflight"
           \/ ~call'.matched
           \/ msgQueue = <<>>
           \/ /\ UnsetInflight(call'.kind, call'.pid)
              /\ msgQueue' = Tail(msgQueue)
              /\ inflight'[Len(inflight')].packet = Head(msgQueue)
              /\ InflightPtrs(inflight') \ InflightPtrs(inflight)
                    = {Head(msgQueue).ptr}
        \* `entered` records exactly the publishes that enter the in-flight queue
        /\ \/ inflight' = inflight /\ entered' = entered
           \/ LET new == InflightPtrs(inflight') \ InflightPtrs(inflight)
              IN  \/ new = {} /\ entered' = entered
                  \/ \E x \in new : new = {x} /\ entered' = Append(entered, x)
        \* and the offered ones among them are in the order of their offers
        /\ \/ entered' = entered
           \/ \A i, j \in 1 .. Len(entered') :
                 (i < j /\ entered'[i] \in offered' /\ entered'[j] \in offered')
                 => entered'[i] < entered'[j]
      ]_vars

\* three publishes were offered in order; the first was acknowledged, the second
\* has been promoted and the third still waits in the backlog
C6_Witness ==
    /\ call.op = "unsetInflight"
    /\ call.matched
    /\ Len(entered) >= 2
    /\ entered[Len(entered)] \in offered
    /\ entered[Len(entered)] \in InflightPtrs(inflight)
    /\ \E x \in Ptrs(msgQueue) : x \in offered /\ x > entered[Len(entered)]

\* C7: no two callers of getPacketID hold the same identifier while both uses
\* are outstanding.
C7_UniqueIdentifiers ==
    \A t, u \in Threads :
        (t # u /\ holding[t] # -1 /\ holding[u] # -1) => holding[t] # holding[u]

\* C8: a Puback for a QoS1 in-flight record clears that identifier's in-use flag
\* in the same unsetInflight call; a Pubrec for a QoS2 in-flight record leaves
\* the identifier table unchanged; and an in-use flag is cleared only by such a
\* Puback or by unsetAwaitRel retiring a record that holds the identifier.
C8_ReleaseAsymmetry ==
    [][ /\ \A p \in AckPids :
              (UnsetInflight("Puback", p) /\ HeldBy(inflight, QOS_1, p))
              => /\ lockedPid'[p] = FALSE
                 /\ Len(inflight') < Len(inflight) \/ msgQueue' # msgQueue
        /\ \A p \in AckPids :
              (UnsetInflight("Pubrec", p) /\ HeldBy(inflight, QOS_2, p))
              => /\ lockedPid' = lockedPid
                 /\ Len(inflight') < Len(inflight) \/ msgQueue' # msgQueue
        /\ \A q \in PacketIDs :
              (lockedPid[q] /\ ~lockedPid'[q])
              => \/ UnsetInflight("Puback", q) /\ HeldBy(inflight, QOS_1, q)
                 \/ UnsetAwaitRel(q) /\ q \in AwaitPids(awaitRel)
      ]_vars

\* a Pubrec has just retired a QoS2 in-flight record and its identifier is still
\* marked in use
C8_Witness ==
    /\ call.op = "unsetInflight"
    /\ call.kind = "Pubrec"
    /\ call.matched
    /\ lockedPid[call.pid]

\* C9: unsetAwaitRel with an identifier that no awaitRel record holds leaves the
\* awaitRel queue, awaitRelLen, the identifier table and every counter unchanged.
C9_IdempotentRetire ==
    [][ \A p \in AckPids :
          (UnsetAwaitRel(p) /\ p \notin AwaitPids(awaitRel))
          => UNCHANGED <<awaitRel, awaitRelLen, lockedPid, freePid, inflight, inflightLen,
                         msgQueue, msgQueueLen, msgDroppedTotal>>
      ]_vars

\* an unsetAwaitRel has just found no record while the queue holds one and an
\* identifier is marked in use
C9_Witness ==
    /\ call.op = "unsetAwaitRel"
    /\ call.matched = FALSE
    /\ awaitRel # <<>>
    /\ awaitRelLen >= 1
    /\ \E q \in PacketIDs : lockedPid[q]

\* C10: msgDroppedTotal never decreases and always equals the number of
\* publishes evicted from the backlog or discarded on arrival.
C10_DropAccounting ==
    [][ /\ msgDroppedTotal' >= msgDroppedTotal
        /\ msgDroppedTotal' = Cardinality(Lost')
      ]_vars

\* C11: every identifier getPacketID returns lies in MIN_PACKET_ID ..
\* MAX_PACKET_ID, 0 is never issued, and whenever no call of getPacketID is in
\* progress the cursor freePid lies in that range too (after MAX_PACKET_ID it
\* is back at MIN_PACKET_ID).
C11_IdentifierRange ==
    /\ \A t \in Threads :
          holding[t] # -1 => holding[t] \in MIN_PACKET_ID .. MAX_PACKET_ID
    /\ pidReaders = {} => freePid \in MIN_PACKET_ID .. MAX_PACKET_ID

\* C12: an identifier returned by getPacketID is marked in lockedPid from the
\* return of getPacketID until freePacketID is called for it.
C12_AllocationMarks ==
    \A t \in Threads :
        (holding[t] # -1 /\ pc[t] = "idle") => lockedPid[holding[t]]

\* C13: a Puback or Pubrec for which no in-flight record has both the QoS the
\* kind retires (QoS1 for Puback, QoS2 for Pubrec) and the given identifier
\* leaves the in-flight queue, the backlog, the identifier table and every
\* counter unchanged and promotes nothing.
C13_UnmatchedIgnored ==
    [][ \A k \in {"Puback", "Pubrec"}, p \in AckPids :
          (UnsetInflight(k, p) /\ ~HeldBy(inflight, RetiredQos(k), p))
          => /\ UNCHANGED <<inflight, inflightLen, msgQueue, msgQueueLen, msgDroppedTotal,
                            lockedPid, freePid, awaitRel, awaitRelLen, entered>>
             /\ call'.matched = FALSE
      ]_vars

\* an acknowledgment has just found no record although the window holds a QoS2
\* record whose identifier is marked in use and the backlog has an entry to promote
C13_Witness ==
    /\ call.op = "unsetInflight"
    /\ call.matched = FALSE
    /\ \E i \in 1 .. Len(inflight) :
          inflight[i].packet.Qos = QOS_2 /\ lockedPid[inflight[i].pid]
    /\ msgQueue # <<>>

\* C14: with a non-zero bound the awaitRel queue never holds more than
\* MaxAwaitRel records; setAwaitRel on a queue that holds MaxAwaitRel records
\* removes the head and appends the new record at the tail, and otherwise only
\* appends; unsetAwaitRel removes at most one record and keeps the order of the
\* others, so the queue is always in arrival order.
C14_AwaitRelBound ==
    [][ /\ MaxAwaitRel # 0 => Len(awaitRel') <= MaxAwaitRel
        /\ \A p \in RelPids :
              SetAwaitRel(p)
              => awaitRel' = Append(IF MaxAwaitRel # 0 /\ Len(awaitRel) = MaxAwaitRel
                                    THEN Tail(awaitRel) ELSE awaitRel,
                                    [pid |-> p])
        /\ \A p \in RelAckPids :
              UnsetAwaitRel(p)
              => \/ awaitRel' = awaitRel
                 \/ \E i \in 1 .. Len(awaitRel) : awaitRel' = Remove(awaitRel, i)
      ]_vars

\* a setAwaitRel has just evicted the head of a full queue: the queue is at its
\* bound, the new record is at the tail behind an older record with another
\* identifier
C14_Witness ==
    /\ call.op = "setAwaitRel"
    /\ MaxAwaitRel >= 2
    /\ Len(awaitRel) = MaxAwaitRel
    /\ awaitRelLen > MaxAwaitRel
    /\ awaitRel[Len(awaitRel)].pid = call.pid
    /\ awaitRel[1].pid # call.pid

\* C18: after every setInflight and every unsetInflight, inflightLen equals the
\* number of records in the in-flight queue and is not negative.
C18_InflightLenConsistent == inflightLen = Len(inflight) /\ inflightLen >= 0

\* C19: after every setAwaitRel and every unsetAwaitRel, awaitRelLen equals the
\* number of records in the awaitRel queue.
C19_AwaitRelLenConsistent == awaitRelLen = Len(awaitRel)

\* C20: when a record leaves the awaitRel queue, by unsetAwaitRel or as the
\* head evicted by setAwaitRel on a full queue, and no record left in the queue
\* holds its identifier, that identifier's in-use flag is clear afterwards.
C20_NoIdentifierLeak ==
    [][ \A i \in 1 .. Len(awaitRel) :
          (/\ \/ \E p \in RelPids : SetAwaitRel(p)
              \/ \E p \in RelAckPids : UnsetAwaitRel(p)
           /\ Len(awaitRel') <= Len(awaitRel)
           /\ awaitRel[i].pid \notin AwaitPids(awaitRel'))
          => lockedPid'[awaitRel[i].pid] = FALSE
      ]_vars

\* C16: with a non-zero window size and publishes reaching the backlog only
\* through setInflight, between calls a non-empty backlog implies that the
\* in-flight queue holds exactly MaxInflight records.
C16_WindowToppedUp ==
    (MaxInflight # 0 /\ msgQueue # <<>>) => Len(inflight) = MaxInflight

\* an acknowledgment has just retired a record and promoted the backlog's head
\* while another publish still waits in the backlog: the window is full again
C16_Witness ==
    /\ call.op = "unsetInflight"
    /\ call.matched
    /\ msgQueue # <<>>
    /\ Len(inflight) = MaxInflight
    /\ entered # <<>>
    /\ inflight[Len(inflight)].packet.ptr = entered[Len(entered)]
    /\ Len(entered) > MaxInflight

\* C17: once the window is full of QoS1 / QoS2 records, every one of which the
\* peer eventually acknowledges with the matching kind and identifier, and no
\* further publish is offered from some point on (the publishes are finitely
\* many), the entries of the backlog are promoted and the backlog becomes empty.
C17_BacklogDrains ==
    (/\ MaxInflight # 0
     /\ Len(inflight) = MaxInflight
     /\ \A i \in 1 .. Len(inflight) : inflight[i].packet.Qos \in {QOS_1, QOS_2}
     /\ msgQueue # <<>>)
    ~> (msgQueue = <<>>)

\* C15: with every handler called by concurrent threads, no thread asks for
\* inflightMu while it holds msgQueueMu or pidMu; a thread that asks for or
\* holds awaitRelMu holds neither inflightMu nor msgQueueMu; and in no
\* reachable state is every thread, or every thread of some group, blocked in
\* a lock call that only threads of the group could let return.
C15_LockOrder ==
    /\ \A t \in Threads :
          Wanted(pc[t]) = "inflightMu" => Holds(t) \cap {"msgQueueMu", "pidMu"} = {}
    /\ \A t \in Threads :
          (Wanted(pc[t]) = "awaitRelMu" \/ "awaitRelMu" \in Holds(t))
          => Holds(t) \cap {"inflightMu", "msgQueueMu"} = {}
    /\ ~(\A t \in Threads : Blocked(t))
    /\ \A S \in SUBSET Threads : ~Deadlocked(S)

\* a thread inside unsetInflight holds inflightMu and is blocked in the
\* pidMu.Lock of freePacketID by a thread that holds awaitRelMu and pidMu inside
\* unsetAwaitRel
C15_Witness ==
    \E t, u \in Threads :
        /\ t # u
        /\ pc[t] = "ui_free"
        /\ "inflightMu" \in Holds(t)
        /\ Blocked(t)
        /\ pc[u] = "ua_free_body"
        /\ Holds(u) = {"awaitRelMu", "pidMu"}

====
